---- MODULE Spec2Model ----
(***************************************************************************)
(* Reconcilers of the Harbor collection: harbor_retention,                 *)
(* harbor_scan_all_schedule and harbor_tag_immutability.  Each run of a    *)
(* module is a sequence of HTTP requests against the registry; every       *)
(* request is one step, the registry answers it with a status chosen by    *)
(* the registry, and the module code between two requests is part of the   *)
(* step that received the response.                                        *)
(***************************************************************************)
EXTENDS Integers, Sequences, FiniteSets, TLC

VARIABLES
  kind,            \* which module is invoked: "retention", "schedule", "tag"
  params,          \* params[p]: module.params of invocation p
  serverEchoesId,  \* whether the registry adds its identifier to a retention / schedule body
  project,         \* registry: the project record, or Null when it does not exist
  retPolicy,       \* registry: the stored retention policy, or Null
  sched,           \* registry: the stored scan-all schedule body, or Null (none configured)
  tagRules,        \* registry: the list of immutable tag rules, each with its id
  nextId,          \* registry: next identifier it assigns
  faithful,        \* history: every 2xx write so far was stored as sent
  run,             \* run[p]: position and locals of invocation p
  result,          \* result[p]: self.result of invocation p, plus the failure message
  log,             \* log[p]: the requests invocation p has issued, in order
  atStart,         \* history: the registry as it was when the running invocation started
  lastWriter       \* history: the invocation whose write the registry stored last, 0 if none

vars == <<kind, params, serverEchoesId, project, retPolicy, sched, tagRules,
          nextId, faithful, run, result, log, atStart, lastWriter>>

registry == <<project, retPolicy, sched, tagRules, nextId>>

\* What the registry holds.
RegistryState ==
  [project |-> project, retPolicy |-> retPolicy, sched |-> sched, tagRules |-> tagRules]

(***************************************************************************)
(* Bounds                                                                  *)
(***************************************************************************)
MaxList == 2

\* The invocations: a run and the run that follows it.
Procs == {1, 2}

(***************************************************************************)
(* Values                                                                  *)
(***************************************************************************)
Null == <<>>

ProjectId == 1

Kinds == {"retention", "schedule", "tag"}
RuleSets == {"latestPushedK", "nDaysSinceLastPush"}
Crons == {"0 0 0 * * 0", "0 0 * * * *"}
TagPatterns == {"old", "new"}

\* The statuses the registry answers a read and a write with.  The tag
\* module classifies a write's status by HarborBaseModule alone (2xx or not),
\* so one status of each class stands for the class there.
GetStatuses == {200, 401, 500}
WriteStatuses(k) ==
  IF k = "tag" THEN {200, 500} ELSE {200, 201, 204, 401, 403, 404, 500}

Is2xx(status) == status \in 200..299

Final == {"exited", "failed", "crashed"}

RECURSIVE SeqsUpTo(_, _)
SeqsUpTo(S, n) ==
  IF n = 0 THEN {<<>>}
  ELSE LET shorter == SeqsUpTo(S, n - 1)
       IN shorter \cup {Append(s, x) : s \in {t \in shorter : Len(t) = n - 1}, x \in S}

Range(s) == {s[i] : i \in DOMAIN s}

(***************************************************************************)
(* HarborBaseModule (module_utils/base.py)                                 *)
(***************************************************************************)
\* The message of a classified failure for a response status.
requestParse(status) ==
  IF status = 401 THEN "Unauthorized"
  ELSE IF status = 403 THEN "Forbidden"
  ELSE IF status = 500 THEN "ServerError"
  ELSE "UnknownStatus"

\* The message errorHandlingHttpRequest fails with, "" when it passes.
errorHandlingHttpRequest(status) ==
  IF Is2xx(status) THEN "" ELSE requestParse(status)

setChanges(res, before, after) ==
  [res EXCEPT !.changed = TRUE, !.diff = [before |-> before, after |-> after]]

\* getProjectByName: the project record, or Null when no project has the name.
getProjectByName == project

(***************************************************************************)
(* harbor_retention: pure parts                                            *)
(***************************************************************************)
\* createDesiredRetentionPolicy with a fixed cron in place of schedule_cron.
createDesiredRetentionPolicy_FixedCron(prm, project_id) ==
  [algorithm |-> "or",
   rules     |-> prm.rules,
   scope     |-> [level |-> "project", ref |-> project_id],
   trigger   |-> [kind |-> "Schedule", settings |-> [cron |-> "0 0 0 * * 0"]]]

createDesiredRetentionPolicy(prm, project_id) ==
  [algorithm |-> "or",
   rules     |-> prm.rules,
   scope     |-> [level |-> "project", ref |-> project_id],
   trigger   |-> [kind |-> "Schedule", settings |-> [cron |-> prm.schedule_cron]]]

\* The branch __init__ takes once the existing policy is fetched.
retentionBranch(force, check_mode, before, desired) ==
  IF (~force) /\ before = desired THEN "unchanged"
  ELSE IF check_mode THEN "check"
  ELSE "apply"

\* The report without the test before != after.
retentionReport_Unconditional(res, before, after) == setChanges(res, before, after)

\* The report after the PUT and the re-fetch.
retentionReport(res, before, after) ==
  IF before # after THEN setChanges(res, before, after) ELSE res

\* The test of the metadata always failing.
hasRetentionId_Never(proj) == FALSE

\* 'retention_id' in project['metadata']
hasRetentionId(proj) == "retention_id" \in DOMAIN proj.metadata

\* errorHandlingPostOrPutRequest letting status 500 pass.
errorHandlingPostOrPutRequest_Passes500(status) ==
  IF status = 200 \/ status = 201 \/ status = 500 THEN ""
  ELSE IF status = 401 THEN "User need to log in first."
  ELSE IF status = 403 THEN "User does not have permission of admin role."
  ELSE "Unknown HTTP status code"

\* The message errorHandlingPostOrPutRequest fails with, "" when it passes.
errorHandlingPostOrPutRequest(status) ==
  IF status = 200 \/ status = 201 THEN ""
  ELSE IF status = 401 THEN "User need to log in first."
  ELSE IF status = 403 THEN "User does not have permission of admin role."
  ELSE IF status = 500 THEN "Unexpected internal errors."
  ELSE "Unknown HTTP status code"

(***************************************************************************)
(* JSON objects are records; a field is added or removed by rebuilding.    *)
(***************************************************************************)
With(rec, f, v) == [g \in DOMAIN rec \cup {f} |-> IF g = f THEN v ELSE rec[g]]
Without(rec, f) == [g \in DOMAIN rec \ {f} |-> rec[g]]

(***************************************************************************)
(* harbor_scan_all_schedule: pure parts                                    *)
(***************************************************************************)
constructDesired(schedule_cron, type) ==
  [schedule |-> [cron |-> schedule_cron, type |-> type]]

\* getSchedule without the test for the empty body.
getSchedule_NoEmptyCase(response) ==
  IF "schedule" \in DOMAIN response.body
  THEN [raised |-> FALSE, value |-> [schedule |-> response.body.schedule]]
  ELSE [raised |-> TRUE, value |-> Null]

\* getSchedule on a response: the canonical current state, or an uncaught
\* exception (json() of a body that is no JSON, or a body without 'schedule').
getSchedule(response) ==
  IF response.status_code = 200 /\ response.content_length = "0"
  THEN [raised |-> FALSE, value |-> Null]
  ELSE IF "schedule" \in DOMAIN response.body
       THEN [raised |-> FALSE, value |-> [schedule |-> response.body.schedule]]
       ELSE [raised |-> TRUE, value |-> Null]

\* The branch __init__ takes once the current schedule is fetched.
scheduleBranch(check_mode, before, desired) ==
  IF desired # before
  THEN IF check_mode THEN "check" ELSE "apply"
  ELSE "unchanged"

\* The message putSchedule fails with, "" when it passes.
putScheduleCheck(status) ==
  IF ~(status = 200) THEN requestParse(status) ELSE ""

(***************************************************************************)
(* harbor_tag_immutability: pure parts                                     *)
(***************************************************************************)
createDesiredTagImmutability(tag_immutability_object, project_id) ==
  [disabled |-> FALSE,
   action |-> "immutable",
   scope_selectors |->
     [repository |-> <<[kind |-> "doublestar",
                        decoration |-> tag_immutability_object.repository.kind,
                        pattern |-> tag_immutability_object.repository.pattern]>>],
   tag_selectors |-> <<[kind |-> "doublestar",
                        decoration |-> tag_immutability_object.tag.kind,
                        pattern |-> tag_immutability_object.tag.pattern]>>,
   project_id |-> project_id,
   priority |-> 0,
   template |-> "immutable_template"]

createDesiredTagImmutabilityList(prm, project_id) ==
  [i \in DOMAIN prm.tag_immutability_list |->
     createDesiredTagImmutability(prm.tag_immutability_list[i], project_id)]

\* formatGetTagImmutabilityList reading the identifier without popping it.
formatGetTagImmutabilityList_KeepsId(tag_immutability_list, project_id) ==
  [ids  |-> [key \in DOMAIN tag_immutability_list |-> tag_immutability_list[key].id],
   list |-> [key \in DOMAIN tag_immutability_list |->
               With(With(With(tag_immutability_list[key],
                              "project_id", project_id),
                         "priority", 0),
                    "disabled", FALSE)]]

\* formatGetTagImmutabilityList: the identifiers popped, by position, and the
\* items with project_id, priority and disabled overwritten.
formatGetTagImmutabilityList(tag_immutability_list, project_id) ==
  [ids  |-> [key \in DOMAIN tag_immutability_list |-> tag_immutability_list[key].id],
   list |-> [key \in DOMAIN tag_immutability_list |->
               With(With(With(Without(tag_immutability_list[key], "id"),
                              "project_id", project_id),
                         "priority", 0),
                    "disabled", FALSE)]]

\* tagBranch without the test of module.check_mode.
tagBranch_IgnoresCheckMode(check_mode, before, desired) ==
  IF before = desired THEN "unchanged" ELSE "apply"

\* The branch __init__ takes once the current rules are fetched and formatted.
tagBranch(check_mode, before, desired) ==
  IF before = desired THEN "unchanged"
  ELSE IF check_mode THEN "check"
  ELSE "apply"

\* tagReport recording the list fetched at the start as the after-state.
tagReport_AfterIsBefore(res, before, after) ==
  IF before # after THEN setChanges(res, before, before)
  ELSE [res EXCEPT !.changed = FALSE]

\* The report after the creates, the deletes and the re-fetch.
tagReport(res, before, after) ==
  IF before # after THEN setChanges(res, before, after)
  ELSE [res EXCEPT !.changed = FALSE]

\* The comprehension without its filter.
tagImmutabilitiesToAdd_All(desired, before) == desired

\* [x for x in desired_tag_immutability_list if x not in before]
tagImmutabilitiesToAdd(desired, before) ==
  SelectSeq(desired, LAMBDA x : ~(\E i \in DOMAIN before : before[i] = x))

\* The comprehension without its filter: every current rule is to be deleted.
tagImmutabilitiesToDeleteKeys_All(before, desired) ==
  [x \in 1..Len(before) |-> x]

\* The comprehension with 'in' for 'not in'.
tagImmutabilitiesToDeleteKeys_NotDropped(before, desired) ==
  SelectSeq([x \in 1..Len(before) |-> x],
            LAMBDA x : \E i \in DOMAIN desired : desired[i] = before[x])

\* [x for x in range(len(before)) if before[x] not in desired_tag_immutability_list]
tagImmutabilitiesToDeleteKeys(before, desired) ==
  SelectSeq([x \in 1..Len(before) |-> x],
            LAMBDA x : ~(\E i \in DOMAIN desired : desired[i] = before[x]))

\* The identifiers taken from the first positions, not from the keys' positions.
tagImmutabilitiesToDeleteIds_ByRank(keys, ids) ==
  [j \in DOMAIN keys |-> ids[j]]

\* [before_tag_immutability_ids[x] for x in tag_immutabilities_to_delete_keys]
tagImmutabilitiesToDeleteIds(keys, ids) ==
  [j \in DOMAIN keys |-> ids[keys[j]]]

(***************************************************************************)
(* The registry                                                            *)
(***************************************************************************)
\* What the registry keeps of a retention policy or schedule it was sent.
ServerStored(payload, id) ==
  IF serverEchoesId THEN With(payload, "id", id) ELSE payload

\* The rule the registry keeps of a POSTed immutable tag rule.
ServerStoredRule(payload, id) == With(payload, "id", id)

\* The rules left when the rule with the identifier is deleted.
ServerDeleteRule(rules, id) == SelectSeq(rules, LAMBDA r : r.id # id)

\* The response to GET /system/scanAll/schedule.
ServerScheduleResponse(status) ==
  IF status = 200
  THEN IF sched = Null
       THEN [status_code |-> 200, content_length |-> "0", body |-> Null]
       ELSE [status_code |-> 200, content_length |-> "n", body |-> sched]
  ELSE [status_code |-> status, content_length |-> "n",
        body |-> [errors |-> "error"]]

\* Whether a write answered with the status may have been stored.
Stores(status) == IF Is2xx(status) THEN BOOLEAN ELSE {FALSE}

(***************************************************************************)
(* Invocation state                                                        *)
(***************************************************************************)
IdleRun ==
  [pc |-> "idle", check_mode |-> FALSE, retention_id |-> 0, desired |-> Null,
   before |-> Null, before_ids |-> Null, after |-> Null,
   to_add |-> Null, to_delete_ids |-> Null]

InitResult ==
  [changed |-> FALSE, diff |-> Null, retention_policy |-> Null, msg |-> ""]

Req(method, url, id, json, status) ==
  [method |-> method, url |-> url, id |-> id, json |-> json, status |-> status]

TagObject(pattern) ==
  [repository |-> [kind |-> "repoMatches", pattern |-> "**"],
   tag |-> [kind |-> "matches", pattern |-> pattern]]

NoParams ==
  [rules |-> "", schedule_cron |-> "", force |-> FALSE, type |-> "",
   tag_immutability_list |-> <<>>]

ParamsOf(k) ==
  IF k = "retention"
  THEN {[NoParams EXCEPT !.rules = r, !.schedule_cron = c, !.force = f] :
          r \in RuleSets, c \in Crons, f \in BOOLEAN}
  ELSE IF k = "schedule"
  THEN {[NoParams EXCEPT !.schedule_cron = c, !.type = t] :
          c \in Crons, t \in {"Custom", "Weekly"}}
  ELSE {[NoParams EXCEPT !.tag_immutability_list = [i \in DOMAIN l |-> TagObject(l[i])]] :
          l \in SeqsUpTo(TagPatterns, MaxList)}

\* The registry states an invocation of module k can meet.
InitRegistry(k) ==
  /\ nextId = MaxList + 1
  /\ IF k = "retention"
     THEN /\ serverEchoesId \in BOOLEAN
          /\ sched = Null /\ tagRules = <<>>
          /\ \/ project = Null /\ retPolicy = Null
             \/ /\ project = [project_id |-> ProjectId, metadata |-> Null]
                /\ retPolicy = Null
             \/ /\ project = [project_id |-> ProjectId,
                              metadata |-> [retention_id |-> 1]]
                /\ \E r \in RuleSets, c \in Crons :
                     retPolicy = ServerStored(
                        createDesiredRetentionPolicy(
                          [NoParams EXCEPT !.rules = r, !.schedule_cron = c], ProjectId), 1)
     ELSE IF k = "schedule"
     THEN /\ serverEchoesId \in BOOLEAN
          /\ project = Null /\ retPolicy = Null /\ tagRules = <<>>
          /\ \/ sched = Null
             \/ \E c \in Crons, t \in {"Custom", "Weekly"} :
                  sched = ServerStored(constructDesired(c, t), 1)
     ELSE /\ serverEchoesId = TRUE
          /\ retPolicy = Null /\ sched = Null
          /\ \/ project = Null /\ tagRules = <<>>
             \/ /\ project = [project_id |-> ProjectId, metadata |-> Null]
                /\ \E l \in SeqsUpTo(TagPatterns \X BOOLEAN, MaxList) :
                     tagRules = [i \in DOMAIN l |->
                        With(ServerStoredRule(
                               createDesiredTagImmutability(TagObject(l[i][1]), ProjectId), i),
                             "disabled", l[i][2])]

Init ==
  /\ kind \in Kinds
  /\ \E prm \in ParamsOf(kind) : params = [p \in Procs |-> prm]
  /\ InitRegistry(kind)
  /\ faithful = TRUE
  /\ run = [p \in Procs |-> IdleRun]
  /\ result = [p \in Procs |-> InitResult]
  /\ log = [p \in Procs |-> <<>>]
  /\ atStart = RegistryState
  /\ lastWriter = 0

(***************************************************************************)
(* Start of an invocation: AnsibleModule(...), super().__init__(),         *)
(* self.result = dict(changed=False).  Invocations run one after another.  *)
(***************************************************************************)
FirstStep(k) ==
  IF k = "retention" THEN "ret_lookup"
  ELSE IF k = "schedule" THEN "sch_get_before"
  ELSE "tag_lookup"

\* What is left of an invocation once its process is gone: how it ended and
\* in which mode it ran (its result is in result[q]).
Ended(r) == [IdleRun EXCEPT !.pc = r.pc, !.check_mode = r.check_mode]

Start(p) ==
  /\ run[p].pc = "idle"
  /\ \A q \in Procs : q < p => run[q].pc \in Final
  /\ \E cm \in BOOLEAN :
       run' = [q \in Procs |->
                 IF q = p
                 THEN [IdleRun EXCEPT !.pc = FirstStep(kind), !.check_mode = cm]
                 ELSE Ended(run[q])]
  /\ log' = [q \in Procs |-> <<>>]
  /\ atStart' = RegistryState
  /\ UNCHANGED <<kind, params, serverEchoesId, registry, faithful, lastWriter, result>>

Issue(p, req) == log' = [log EXCEPT ![p] = Append(@, req)]

Goto(p, r) == run' = [run EXCEPT ![p] = r]

\* module.exit_json(**self.result)
Exit(p, r, res) ==
  /\ run' = [run EXCEPT ![p] = [r EXCEPT !.pc = "exited"]]
  /\ result' = [result EXCEPT ![p] = res]

\* module.fail_json(msg=...)
Fail(p, r, msg) ==
  /\ run' = [run EXCEPT ![p] = [r EXCEPT !.pc = "failed"]]
  /\ result' = [result EXCEPT ![p].msg = msg]

\* An exception nothing catches ends the invocation without a result.
Crash(p, r) ==
  /\ run' = [run EXCEPT ![p] = [r EXCEPT !.pc = "crashed"]]
  /\ UNCHANGED result

(***************************************************************************)
(* harbor_retention: HarborRetentionModule.__init__                        *)
(***************************************************************************)
\* getProjectByName, the "Project not found" exit, the desired policy and the
\* branch on 'retention_id' in project['metadata'].  Without a retention_id
\* a check-mode run reports the desired policy and ends here.
RetLookup(p) ==
  /\ run[p].pc = "ret_lookup"
  /\ Issue(p, Req("GET", "/projects", 0, Null, 200))
  /\ LET proj == getProjectByName
         r == run[p]
     IN IF proj = Null
        THEN \* fail_json(msg="Project not found", **self.self.result):
             \* self.self raises AttributeError before fail_json is called
             Crash(p, r)
        ELSE LET desired == createDesiredRetentionPolicy(params[p], proj.project_id)
                 r1 == [r EXCEPT !.desired = desired]
             IN IF hasRetentionId(proj)
                THEN /\ Goto(p, [r1 EXCEPT !.pc = "ret_get_before",
                                          !.retention_id = proj.metadata.retention_id])
                     /\ UNCHANGED result
                ELSE IF r.check_mode
                THEN Exit(p, r1, [result[p] EXCEPT !.retention_policy = desired,
                                                   !.changed = TRUE])
                ELSE /\ Goto(p, [r1 EXCEPT !.pc = "ret_post"])
                     /\ UNCHANGED result
  /\ UNCHANGED <<kind, params, serverEchoesId, registry, faithful, lastWriter, atStart>>

\* getRetentionPolicy of the existing policy, the comparison with the desired
\* policy, and the check-mode branch.
RetGetBefore(p) ==
  /\ run[p].pc = "ret_get_before"
  /\ \E status \in GetStatuses :
       /\ Issue(p, Req("GET", "/retentions/{id}", run[p].retention_id, Null, status))
       /\ IF ~(status = 200)
          THEN Fail(p, run[p], requestParse(status))
          ELSE LET before == retPolicy
                   r == [run[p] EXCEPT !.before = before]
                   branch == retentionBranch(params[p].force, r.check_mode, before, r.desired)
               IN IF branch = "unchanged"
                  THEN Exit(p, r, [result[p] EXCEPT !.changed = FALSE])
                  ELSE IF branch = "check"
                  THEN Exit(p, r, setChanges(result[p], before, r.desired))
                  ELSE /\ Goto(p, [r EXCEPT !.pc = "ret_put"])
                       /\ UNCHANGED result
  /\ UNCHANGED <<kind, params, serverEchoesId, registry, faithful, lastWriter, atStart>>

\* requests.put of the desired policy and errorHandlingPostOrPutRequest.
RetPut(p) ==
  /\ run[p].pc = "ret_put"
  /\ \E status \in WriteStatuses(kind) :
     \E stored \in Stores(status) :
       /\ Issue(p, Req("PUT", "/retentions/{id}", run[p].retention_id, run[p].desired, status))
       /\ retPolicy' = IF stored THEN ServerStored(run[p].desired, run[p].retention_id)
                       ELSE retPolicy
       /\ faithful' = (faithful /\ (Is2xx(status) => stored))
       /\ lastWriter' = IF stored THEN p ELSE lastWriter
       /\ IF errorHandlingPostOrPutRequest(status) = ""
          THEN /\ Goto(p, [run[p] EXCEPT !.pc = "ret_get_after"])
               /\ UNCHANGED result
          ELSE Fail(p, run[p], errorHandlingPostOrPutRequest(status))
  /\ UNCHANGED <<kind, params, serverEchoesId, project, sched, tagRules, nextId, atStart>>

\* The re-fetch after the PUT and the report.
RetGetAfter(p) ==
  /\ run[p].pc = "ret_get_after"
  /\ \E status \in GetStatuses :
       /\ Issue(p, Req("GET", "/retentions/{id}", run[p].retention_id, Null, status))
       /\ IF ~(status = 200)
          THEN Fail(p, run[p], requestParse(status))
          ELSE LET after == retPolicy
                   r == [run[p] EXCEPT !.after = after]
               IN Exit(p, r, retentionReport(result[p], r.before, after))
  /\ UNCHANGED <<kind, params, serverEchoesId, registry, faithful, lastWriter, atStart>>

\* requests.post of the desired policy and errorHandlingPostOrPutRequest.
RetPost(p) ==
  /\ run[p].pc = "ret_post"
  /\ \E status \in WriteStatuses(kind) :
     \E stored \in Stores(status) :
       /\ Issue(p, Req("POST", "/retentions", 0, run[p].desired, status))
       /\ IF stored
          THEN /\ retPolicy' = ServerStored(run[p].desired, nextId)
               /\ project' = [project EXCEPT !.metadata = [retention_id |-> nextId]]
               /\ nextId' = nextId + 1
          ELSE UNCHANGED <<retPolicy, project, nextId>>
       /\ faithful' = (faithful /\ (Is2xx(status) => stored))
       /\ lastWriter' = IF stored THEN p ELSE lastWriter
       /\ IF errorHandlingPostOrPutRequest(status) = ""
          THEN /\ Goto(p, [run[p] EXCEPT !.pc = "ret_relookup"])
               /\ UNCHANGED result
          ELSE Fail(p, run[p], errorHandlingPostOrPutRequest(status))
  /\ UNCHANGED <<kind, params, serverEchoesId, sched, tagRules, atStart>>

\* The second getProjectByName and project["metadata"]["retention_id"].
RetRelookup(p) ==
  /\ run[p].pc = "ret_relookup"
  /\ Issue(p, Req("GET", "/projects", 0, Null, 200))
  /\ LET proj == getProjectByName
     IN IF proj # Null /\ hasRetentionId(proj)
        THEN Goto(p, [run[p] EXCEPT !.pc = "ret_get_created",
                                    !.retention_id = proj.metadata.retention_id])
        ELSE \* KeyError (or TypeError on None)
             Goto(p, [run[p] EXCEPT !.pc = "crashed"])
  /\ UNCHANGED <<kind, params, serverEchoesId, registry, faithful, lastWriter, result, atStart>>

\* getRetentionPolicy of the created policy and the report.
RetGetCreated(p) ==
  /\ run[p].pc = "ret_get_created"
  /\ \E status \in GetStatuses :
       /\ Issue(p, Req("GET", "/retentions/{id}", run[p].retention_id, Null, status))
       /\ IF ~(status = 200)
          THEN Fail(p, run[p], requestParse(status))
          ELSE LET r == [run[p] EXCEPT !.after = retPolicy]
               IN Exit(p, r, [result[p] EXCEPT !.retention_policy = retPolicy,
                                               !.changed = TRUE])
  /\ UNCHANGED <<kind, params, serverEchoesId, registry, faithful, lastWriter, atStart>>

(***************************************************************************)
(* harbor_scan_all_schedule: HarborScanAllScheduleModule.__init__          *)
(***************************************************************************)
\* constructDesired, getSchedule, the comparison and the check-mode branch.
SchGetBefore(p) ==
  /\ run[p].pc = "sch_get_before"
  /\ \E status \in GetStatuses :
       /\ Issue(p, Req("GET", "/system/scanAll/schedule", 0, Null, status))
       /\ LET got == getSchedule(ServerScheduleResponse(status))
              desired == constructDesired(params[p].schedule_cron, params[p].type)
              r == [run[p] EXCEPT !.desired = desired, !.before = got.value]
          IN IF got.raised
             THEN Crash(p, [run[p] EXCEPT !.desired = desired])
             ELSE IF scheduleBranch(r.check_mode, got.value, desired) = "check"
             THEN Exit(p, r, setChanges(result[p], got.value, desired))
             ELSE IF scheduleBranch(r.check_mode, got.value, desired) = "apply"
             THEN /\ Goto(p, [r EXCEPT !.pc = "sch_put"])
                  /\ UNCHANGED result
             ELSE Exit(p, r, result[p])
  /\ UNCHANGED <<kind, params, serverEchoesId, registry, faithful, lastWriter, atStart>>

\* putSchedule(desired)
SchPut(p) ==
  /\ run[p].pc = "sch_put"
  /\ \E status \in WriteStatuses(kind) :
     \E stored \in Stores(status) :
       /\ Issue(p, Req("PUT", "/system/scanAll/schedule", 0, run[p].desired, status))
       /\ sched' = IF stored THEN ServerStored(run[p].desired, 1) ELSE sched
       /\ faithful' = (faithful /\ (Is2xx(status) => stored))
       /\ lastWriter' = IF stored THEN p ELSE lastWriter
       /\ IF putScheduleCheck(status) = ""
          THEN /\ Goto(p, [run[p] EXCEPT !.pc = "sch_get_after"])
               /\ UNCHANGED result
          ELSE Fail(p, run[p], putScheduleCheck(status))
  /\ UNCHANGED <<kind, params, serverEchoesId, project, retPolicy, tagRules, nextId, atStart>>

\* after = getSchedule(); setChanges(before, after)
SchGetAfter(p) ==
  /\ run[p].pc = "sch_get_after"
  /\ \E status \in GetStatuses :
       /\ Issue(p, Req("GET", "/system/scanAll/schedule", 0, Null, status))
       /\ LET got == getSchedule(ServerScheduleResponse(status))
              r == [run[p] EXCEPT !.after = got.value]
          IN IF got.raised
             THEN Crash(p, run[p])
             ELSE Exit(p, r, setChanges(result[p], r.before, got.value))
  /\ UNCHANGED <<kind, params, serverEchoesId, registry, faithful, lastWriter, atStart>>

(***************************************************************************)
(* harbor_tag_immutability: HarborTagImmutabilityModule.__init__           *)
(***************************************************************************)
\* The two loops in the other order: the deletes, then the creates.
TagStep_DeletesFirst(to_add, to_delete_ids) ==
  IF to_delete_ids # <<>> THEN "tag_delete"
  ELSE IF to_add # <<>> THEN "tag_create"
  ELSE "tag_get_after"

\* The position after the creates and deletes still to issue.
TagStep(to_add, to_delete_ids) ==
  IF to_add # <<>> THEN "tag_create"
  ELSE IF to_delete_ids # <<>> THEN "tag_delete"
  ELSE "tag_get_after"

\* getProjectByName, the "Project not found" exit and the desired list.
TagLookup(p) ==
  /\ run[p].pc = "tag_lookup"
  /\ Issue(p, Req("GET", "/projects", 0, Null, 200))
  /\ LET proj == getProjectByName
     IN IF proj = Null
        THEN \* **self.self.result raises AttributeError before fail_json is called
             Crash(p, run[p])
        ELSE /\ Goto(p, [run[p] EXCEPT
                           !.pc = "tag_get_before",
                           !.desired = createDesiredTagImmutabilityList(params[p], proj.project_id)])
             /\ UNCHANGED result
  /\ UNCHANGED <<kind, params, serverEchoesId, registry, faithful, lastWriter, atStart>>

\* getTagImmutabilityList, formatGetTagImmutabilityList, the comparison, the
\* check-mode branch and the two list comprehensions (they read only before
\* and the desired list, which the creates in between do not change).
TagGetBefore(p) ==
  /\ run[p].pc = "tag_get_before"
  /\ \E status \in GetStatuses :
       /\ Issue(p, Req("GET", "/projects/{id}/immutabletagrules", 0, Null, status))
       /\ IF ~(status = 200)
          THEN Fail(p, run[p], requestParse(status))
          ELSE LET fmt == formatGetTagImmutabilityList(tagRules, project.project_id)
                   before == fmt.list
                   desired == run[p].desired
                   to_add == tagImmutabilitiesToAdd(desired, before)
                   to_delete_ids == tagImmutabilitiesToDeleteIds(
                                      tagImmutabilitiesToDeleteKeys(before, desired), fmt.ids)
                   r == [run[p] EXCEPT !.before = before, !.before_ids = fmt.ids]
               IN IF tagBranch(r.check_mode, before, desired) = "unchanged"
                  THEN Exit(p, r, [result[p] EXCEPT !.changed = FALSE])
                  ELSE IF tagBranch(r.check_mode, before, desired) = "check"
                  THEN Exit(p, r, setChanges(result[p], before, desired))
                  ELSE /\ Goto(p, [r EXCEPT !.to_add = to_add,
                                           !.to_delete_ids = to_delete_ids,
                                           !.pc = TagStep(to_add, to_delete_ids)])
                       /\ UNCHANGED result
  /\ UNCHANGED <<kind, params, serverEchoesId, registry, faithful, lastWriter, atStart>>

\* One iteration of createTagImmutabilities.
TagCreate(p) ==
  /\ run[p].pc = "tag_create"
  /\ \E status \in WriteStatuses(kind) :
     \E stored \in Stores(status) :
       LET payload == Head(run[p].to_add)
           rest == Tail(run[p].to_add)
       IN /\ Issue(p, Req("POST", "/projects/{id}/immutabletagrules", 0, payload, status))
          /\ IF stored
             THEN /\ tagRules' = Append(tagRules, ServerStoredRule(payload, nextId))
                  /\ nextId' = nextId + 1
             ELSE UNCHANGED <<tagRules, nextId>>
          /\ faithful' = (faithful /\ (Is2xx(status) => stored))
          /\ lastWriter' = IF stored THEN p ELSE lastWriter
          /\ IF errorHandlingHttpRequest(status) = ""
             THEN /\ Goto(p, [run[p] EXCEPT !.to_add = rest,
                                            !.pc = TagStep(rest, run[p].to_delete_ids)])
                  /\ UNCHANGED result
             ELSE Fail(p, run[p], errorHandlingHttpRequest(status))
  /\ UNCHANGED <<kind, params, serverEchoesId, project, retPolicy, sched, atStart>>

\* One iteration of deleteTagImmutabilities.
TagDelete(p) ==
  /\ run[p].pc = "tag_delete"
  /\ \E status \in WriteStatuses(kind) :
     \E stored \in Stores(status) :
       LET id == Head(run[p].to_delete_ids)
           rest == Tail(run[p].to_delete_ids)
       IN /\ Issue(p, Req("DELETE", "/projects/{id}/immutabletagrules/{id}", id, Null, status))
          /\ tagRules' = IF stored THEN ServerDeleteRule(tagRules, id) ELSE tagRules
          /\ faithful' = (faithful /\ (Is2xx(status) => stored))
          /\ lastWriter' = IF stored THEN p ELSE lastWriter
          /\ IF errorHandlingHttpRequest(status) = ""
             THEN /\ Goto(p, [run[p] EXCEPT !.to_delete_ids = rest,
                                            !.pc = TagStep(run[p].to_add, rest)])
                  /\ UNCHANGED result
             ELSE Fail(p, run[p], errorHandlingHttpRequest(status))
  /\ UNCHANGED <<kind, params, serverEchoesId, project, retPolicy, sched, nextId, atStart>>

\* The re-fetch after the creates and deletes and the report.
TagGetAfter(p) ==
  /\ run[p].pc = "tag_get_after"
  /\ \E status \in GetStatuses :
       /\ Issue(p, Req("GET", "/projects/{id}/immutabletagrules", 0, Null, status))
       /\ IF ~(status = 200)
          THEN Fail(p, run[p], requestParse(status))
          ELSE LET after == formatGetTagImmutabilityList(tagRules, project.project_id).list
                   r == [run[p] EXCEPT !.after = after]
               IN Exit(p, r, tagReport(result[p], r.before, after))
  /\ UNCHANGED <<kind, params, serverEchoesId, registry, faithful, lastWriter, atStart>>

(***************************************************************************)
(* Specification                                                           *)
(***************************************************************************)
Next ==
  \E p \in Procs :
    \/ Start(p)
    \/ RetLookup(p)
    \/ RetGetBefore(p)
    \/ RetPut(p)
    \/ RetGetAfter(p)
    \/ RetPost(p)
    \/ RetRelookup(p)
    \/ RetGetCreated(p)
    \/ SchGetBefore(p)
    \/ SchPut(p)
    \/ SchGetAfter(p)
    \/ TagLookup(p)
    \/ TagGetBefore(p)
    \/ TagCreate(p)
    \/ TagDelete(p)
    \/ TagGetAfter(p)

Spec == Init /\ [][Next]_vars

(***************************************************************************)
(* Two invocations at once: two ansible processes of the same module, each *)
(* with its own parameters, against the same project of a registry that    *)
(* answers every request with 200 and stores every write.  Their requests  *)
(* interleave in any order; nothing synchronises them.                     *)
(***************************************************************************)
InitConc ==
  /\ kind \in {"retention", "tag"}
  /\ params \in [Procs -> ParamsOf(kind)]
  /\ InitRegistry(kind)
  /\ \A i \in DOMAIN tagRules : ~tagRules[i].disabled
  /\ faithful = TRUE
  /\ run = [p \in Procs |-> IdleRun]
  /\ result = [p \in Procs |-> InitResult]
  /\ log = [p \in Procs |-> <<>>]
  /\ atStart = RegistryState
  /\ lastWriter = 0

\* An invocation starts, in apply mode, whatever the other one is doing.
StartConc(p) ==
  /\ run[p].pc = "idle"
  /\ run' = [run EXCEPT ![p] = [IdleRun EXCEPT !.pc = FirstStep(kind)]]
  /\ UNCHANGED <<kind, params, serverEchoesId, registry, faithful, lastWriter,
                 result, log, atStart>>

\* Every request so far was answered 200 and every write was stored.
Reliable ==
  /\ faithful
  /\ \A p \in Procs : \A i \in DOMAIN log[p] : log[p][i].status = 200

NextConc ==
  \E p \in Procs :
    \/ StartConc(p) /\ Reliable'
    \/ RetLookup(p) /\ Reliable'
    \/ RetGetBefore(p) /\ Reliable'
    \/ RetPut(p) /\ Reliable'
    \/ RetGetAfter(p) /\ Reliable'
    \/ RetPost(p) /\ Reliable'
    \/ RetRelookup(p) /\ Reliable'
    \/ RetGetCreated(p) /\ Reliable'
    \/ TagLookup(p) /\ Reliable'
    \/ TagGetBefore(p) /\ Reliable'
    \/ TagCreate(p) /\ Reliable'
    \/ TagDelete(p) /\ Reliable'
    \/ TagGetAfter(p) /\ Reliable'

SpecConc == InitConc /\ [][NextConc]_vars

(***************************************************************************)
(* Properties                                                              *)
(***************************************************************************)
Mutating(req) == req.method \in {"POST", "PUT", "DELETE"}

\* The POSTs, PUTs and DELETEs invocation p has issued, in order.
Writes(p) == SelectSeq(log[p], Mutating)

Issued(p, method) == \E i \in DOMAIN log[p] : log[p][i].method = method

\* p is the invocation that is running, or the last one that ran.
Current(p) ==
  /\ run[p].pc # "idle"
  /\ \A q \in Procs : q > p => run[q].pc = "idle"

\* C1: a run in check mode issues no POST, PUT or DELETE, whatever the module,
\* the registry state, the desired specification and the force flag, and the
\* registry holds what it held when the run started.
C1_CheckModeNoSideEffect ==
  \A p \in Procs :
    (Current(p) /\ run[p].check_mode) =>
      /\ Writes(p) = <<>>
      /\ RegistryState = atStart

\* A check-mode run of the tag module that ended reporting a delta.
C1_Witness ==
  \E p \in Procs :
    /\ Current(p) /\ run[p].check_mode /\ kind = "tag"
    /\ run[p].pc = "exited" /\ result[p].changed
    /\ run[p].before # run[p].desired

\* C2: two apply-mode runs in succession with the same input, on a registry
\* that stores what it is sent and that nothing else writes to: the second run
\* reports changed=false; and a run that changed the registry reports
\* changed=true.
C2_Idempotence ==
  /\ (/\ run[1].pc = "exited" /\ ~run[1].check_mode
      /\ run[2].pc = "exited" /\ ~run[2].check_mode
      /\ params[1] = params[2]
      /\ faithful)
     => result[2].changed = FALSE
  /\ \A p \in Procs :
       (/\ Current(p) /\ run[p].pc = "exited" /\ ~run[p].check_mode
        /\ RegistryState # atStart)
       => result[p].changed = TRUE

\* The first run converged the registry and said so, the second found nothing to do.
C2_Witness ==
  /\ run[1].pc = "exited" /\ ~run[1].check_mode /\ result[1].changed
  /\ run[2].pc = "exited" /\ ~run[2].check_mode /\ ~result[2].changed
  /\ faithful

\* C3: without force, a POST, PUT or DELETE is issued only if the current state
\* fetched at the start of the run differs from the desired state; for tag
\* rules none is issued when the two lists hold the same rules.
C3_NoWriteWithoutDelta ==
  \A p \in Procs :
    (Current(p) /\ ~params[p].force /\ Writes(p) # <<>>) =>
      /\ run[p].before # run[p].desired
      /\ kind = "tag" => Range(run[p].before) # Range(run[p].desired)

\* A tag run without force that issued a POST and a DELETE.
C3_Witness ==
  \E p \in Procs :
    /\ Current(p) /\ kind = "tag" /\ ~params[p].force
    /\ Issued(p, "POST") /\ Issued(p, "DELETE")

\* C4: to_create holds exactly the desired rules that are not current, the
\* identifiers to delete are exactly those of the current rules that are not
\* desired, and the current rules without the deleted ones, with the created
\* ones, are the desired rules; a run that issued them all on a registry that
\* stores what it is sent re-fetches the desired rules.
C4_SetDiffCorrect ==
  \A p \in Procs :
    (kind = "tag" /\ Current(p)) =>
      LET A == run[p].before
          B == run[p].desired
          ids == run[p].before_ids
      IN /\ (run[p].pc \in {"tag_create", "tag_delete", "tag_get_after"} /\ Writes(p) = <<>>) =>
              LET to_create == run[p].to_add
                  to_delete == run[p].to_delete_ids
                  kept == {A[i] : i \in {j \in DOMAIN A : ids[j] \notin Range(to_delete)}}
              IN /\ Range(to_create) = Range(B) \ Range(A)
                 /\ Range(to_delete) = {ids[i] : i \in {j \in DOMAIN A : A[j] \notin Range(B)}}
                 /\ Cardinality(Range(to_delete)) = Len(to_delete)
                 /\ kept \cup Range(to_create) = Range(B)
         /\ (run[p].pc = "exited" /\ Writes(p) # <<>> /\ faithful) =>
              Range(run[p].after) = Range(B)

\* Both sets are non-empty: a rule to create and a rule to delete.
C4_Witness ==
  \E p \in Procs :
    /\ kind = "tag" /\ Current(p) /\ run[p].pc = "tag_create" /\ Writes(p) = <<>>
    /\ run[p].to_add # <<>> /\ run[p].to_delete_ids # <<>>
    /\ Len(run[p].before) = 2

\* The project had a retention policy when the run started.
HadRetentionPolicy ==
  atStart.project # Null /\ "retention_id" \in DOMAIN atStart.project.metadata

\* C5: a retention run with force set, against a project that already has a
\* retention policy, ends with changed=true, in check mode and in apply mode
\* (here on a registry that stores every write it accepts).
C5_ForceAlwaysChanged ==
  \A p \in Procs :
    (/\ kind = "retention" /\ Current(p) /\ params[p].force
     /\ HadRetentionPolicy /\ faithful
     /\ run[p].pc = "exited")
    => result[p].changed = TRUE

\* A write the registry answered with an error status.
IsFailedWrite(req) == Mutating(req) /\ ~Is2xx(req.status)

\* The rules the registry holds after the requests of a log, had it stored every
\* write answered 2xx, identifiers of created rules left open (0).
RECURSIVE Replay(_, _)
Replay(rules, reqs) ==
  IF reqs = <<>> THEN rules
  ELSE LET req == Head(reqs)
           next == IF ~Is2xx(req.status) THEN rules
                   ELSE IF req.method = "POST" THEN Append(rules, With(req.json, "id", 0))
                   ELSE IF req.method = "DELETE" THEN SelectSeq(rules, LAMBDA r : r.id # req.id)
                   ELSE rules
       IN Replay(next, Tail(reqs))

Anonymous(rules) == [i \in DOMAIN rules |-> Without(rules[i], "id")]

\* C6: a write answered with an error status is the last request of its run,
\* and the run has failed; the registry then holds, for tag rules, the effects
\* of the writes issued before it and nothing else.
C6_AbortOnFirstError ==
  \A p \in Procs :
    Current(p) =>
      /\ \A i \in DOMAIN log[p] :
           IsFailedWrite(log[p][i]) => (i = Len(log[p]) /\ run[p].pc = "failed")
      /\ (kind = "tag" /\ run[p].pc = "failed" /\ faithful /\ Writes(p) # <<>>) =>
           Anonymous(tagRules) = Anonymous(Replay(atStart.tagRules, log[p]))

\* A tag run that failed on a DELETE after a POST and a DELETE that succeeded.
C6_Witness ==
  \E p \in Procs :
    /\ kind = "tag" /\ Current(p) /\ run[p].pc = "failed" /\ faithful
    /\ Len(Writes(p)) = 3
    /\ Writes(p)[1].method = "POST" /\ Is2xx(Writes(p)[1].status)
    /\ Writes(p)[2].method = "DELETE" /\ Is2xx(Writes(p)[2].status)
    /\ IsFailedWrite(Writes(p)[3])
    /\ tagRules # atStart.tagRules

\* C7: a GET answered with a non-2xx status is the last request of its run and
\* the run ends as a classified failure (fail_json), in all three modules.
C7_FailedReadIsFatal ==
  \A p \in Procs :
    Current(p) =>
      \A i \in DOMAIN log[p] :
        (log[p][i].method = "GET" /\ ~Is2xx(log[p][i].status)) =>
          /\ i = Len(log[p])
          /\ run[p].pc = "failed"
          /\ result[p].msg = requestParse(log[p][i].status)

\* C8: when the project does not exist, a retention run and a tag run end as a
\* failure with the message "Project not found", after the lookup alone.
C8_ProjectNotFound ==
  \A p \in Procs :
    (/\ kind \in {"retention", "tag"} /\ Current(p)
     /\ atStart.project = Null
     /\ Len(log[p]) >= 1)
    => /\ run[p].pc = "failed"
       /\ result[p].msg = "Project not found"
       /\ Len(log[p]) = 1

\* C9: an apply-mode retention run on an existing project issues a POST if and only if
\* the project's metadata holds no retention_id, a PUT only if it holds one
\* (and the fetched policy differs from the desired one or force is set), and
\* at most one mutating call in all.
C9_CreateVersusUpdate ==
  \A p \in Procs :
    (kind = "retention" /\ Current(p) /\ ~run[p].check_mode /\ atStart.project # Null) =>
      /\ Issued(p, "POST") => ~("retention_id" \in DOMAIN atStart.project.metadata)
      /\ (run[p].pc \in Final /\ ~("retention_id" \in DOMAIN atStart.project.metadata))
           => Issued(p, "POST")
      /\ Issued(p, "PUT") =>
           /\ "retention_id" \in DOMAIN atStart.project.metadata
           /\ (run[p].before # run[p].desired \/ params[p].force)
      /\ Len(Writes(p)) <= 1

\* A run that created the policy and ended, and then a run that updated it.
C9_Witness ==
  /\ kind = "retention"
  /\ run[1].pc = "exited" /\ ~run[1].check_mode /\ result[1].retention_policy # Null
  /\ run[2].pc = "exited" /\ ~run[2].check_mode /\ Issued(2, "PUT")

\* An apply-mode run that issued its writes, each answered 2xx, re-fetched the
\* resource and ended (for retention: on the update path).
Verified(p) ==
  /\ Current(p) /\ run[p].pc = "exited" /\ ~run[p].check_mode
  /\ Writes(p) # <<>>
  /\ ~Issued(p, "POST") \/ kind = "tag"

Unconfigured(p) ==
  /\ kind = "schedule" /\ Current(p)
  /\ atStart.sched = Null
  /\ log[p] # <<>> /\ log[p][1].status = 200

\* C11: when the schedule GET returns 200 with content length zero, the
\* canonical current state is the empty mapping, which is unequal to the
\* desired schedule whatever it is; the run goes on to the PUT (apply mode) or
\* to the report (check mode); an apply-mode run that ends has issued exactly
\* one PUT, of the desired schedule, and reports changed=true; a check-mode
\* run reports changed=true with before = the empty mapping and writes nothing.
C11_UnconfiguredForcesCreation ==
  \A p \in Procs :
    Unconfigured(p) =>
      /\ run[p].before = Null
      /\ run[p].desired # run[p].before
      /\ Len(log[p]) = 1 =>
            run[p].pc = IF run[p].check_mode THEN "exited" ELSE "sch_put"
      /\ (run[p].pc = "exited" /\ run[p].check_mode) =>
            /\ Writes(p) = <<>>
            /\ result[p].changed = TRUE
            /\ result[p].diff = [before |-> Null, after |-> run[p].desired]
      /\ (run[p].pc = "exited" /\ ~run[p].check_mode) =>
            /\ Len(Writes(p)) = 1
            /\ Writes(p)[1].method = "PUT"
            /\ Writes(p)[1].json = run[p].desired
            /\ result[p].changed = TRUE
            /\ result[p].diff.before = Null

\* An apply-mode run created the schedule where none was configured.
C11_Witness ==
  \E p \in Procs :
    /\ Unconfigured(p) /\ ~run[p].check_mode /\ run[p].pc = "exited"
    /\ Len(Writes(p)) = 1 /\ result[p].changed
    /\ sched # Null

\* The requests of invocation p with the method, in order.
Requests(p, method) == SelectSeq(log[p], LAMBDA req : req.method = method)

\* The positions of the list whose item is no item of the other list.
Unmatched(list, other) == {i \in DOMAIN list : list[i] \notin Range(other)}

\* C12: an apply-mode tag run that met no error has issued one POST per entry
\* of the desired list that equals no current rule (in the order of the desired
\* list) and one DELETE per current rule that equals no desired rule, each
\* DELETE carrying the identifier the registry holds at that rule's position;
\* a changed rule gives one DELETE and one POST; identical lists give no POST,
\* no DELETE and changed=false.
C12_MinimalTagOperations ==
  \A p \in Procs :
    (kind = "tag" /\ Current(p) /\ ~run[p].check_mode /\ run[p].pc = "exited") =>
      LET before == run[p].before
          desired == run[p].desired
          posts == Requests(p, "POST")
          deletes == Requests(p, "DELETE")
          gone == Unmatched(before, desired)
      IN /\ [i \in DOMAIN posts |-> posts[i].json]
              = SelectSeq(desired, LAMBDA x : x \notin Range(before))
         /\ Len(deletes) = Cardinality(gone)
         /\ {deletes[i].id : i \in DOMAIN deletes} = {atStart.tagRules[i].id : i \in gone}
         /\ \A i \in gone :
              Without(atStart.tagRules[i], "id").tag_selectors = before[i].tag_selectors
         /\ (Len(before) = 1 /\ Len(desired) = 1 /\ before # desired) =>
              /\ Len(deletes) = 1 /\ deletes[1].id = atStart.tagRules[1].id
              /\ Len(posts) = 1 /\ posts[1].json = desired[1]
         /\ before = desired =>
              /\ posts = <<>> /\ deletes = <<>>
              /\ result[p].changed = FALSE

\* The one current rule is replaced: one DELETE, of its identifier, then
\* nothing of it is left, and one POST of the desired rule.
C12_Witness ==
  \E p \in Procs :
    /\ kind = "tag" /\ Current(p) /\ ~run[p].check_mode /\ run[p].pc = "exited"
    /\ Len(run[p].before) = 1 /\ Len(run[p].desired) = 1
    /\ run[p].before # run[p].desired
    /\ Len(Requests(p, "DELETE")) = 1 /\ Len(Requests(p, "POST")) = 1
    /\ Requests(p, "DELETE")[1].id = atStart.tagRules[1].id
    /\ result[p].changed

\* The canonical current state of run p carries no identifier.
NoIdentifier(p) ==
  IF kind = "tag"
  THEN \A i \in DOMAIN run[p].before : "id" \notin DOMAIN run[p].before[i]
  ELSE "id" \notin DOMAIN run[p].before

\* The resource the registry held at the start of run p differs from the
\* desired state at most by identifiers.
DiffersByIdOnly(p) ==
  IF kind = "retention"
  THEN atStart.retPolicy # Null /\ Without(atStart.retPolicy, "id") = run[p].desired
  ELSE IF kind = "schedule"
  THEN atStart.sched # Null /\ Without(atStart.sched, "id") = run[p].desired
  ELSE Anonymous(atStart.tagRules) = run[p].desired

\* The first fetch of the resource by run p was answered 200 and compared.
Fetched(p) ==
  /\ Current(p)
  /\ \E i \in DOMAIN log[p] :
       /\ log[p][i].url # "/projects" /\ log[p][i].status = 200
       /\ \A j \in 1..(i - 1) : log[p][j].url = "/projects"

\* C13: in all three modules the canonical form that is compared with the
\* desired state holds no server-assigned identifier, and a resource that
\* differs from the desired state only by its identifier compares equal to it.
C13_CanonicalNoIdentifier ==
  \A p \in Procs :
    Fetched(p) =>
      /\ NoIdentifier(p)
      /\ DiffersByIdOnly(p) => run[p].before = run[p].desired

\* Both invocations have ended and the registry stored a write of one of them.
BothFinished ==
  /\ \A p \in Procs : run[p].pc \in Final
  /\ lastWriter # 0

\* C14: two invocations at once, in any interleaving of their requests: once
\* both have ended, the registry holds the desired state of the invocation
\* whose write it stored last, the retention policy and the tag rules alike.
C14_LastWriteWins ==
  BothFinished =>
    IF kind = "retention"
    THEN Without(retPolicy, "id") = run[lastWriter].desired
    ELSE Range(Anonymous(tagRules)) = Range(run[lastWriter].desired)

\* C14, amended: the retention policy is the one the last writer asked for, by
\* its rules and its schedule_cron; of the tag rules it is only said that each
\* was there at the start or is desired by one of the two invocations.
C14_LastWriteWinsRetention ==
  BothFinished =>
    IF kind = "retention"
    THEN /\ Without(retPolicy, "id") = run[lastWriter].desired
         /\ retPolicy.rules = params[lastWriter].rules
         /\ retPolicy.trigger.settings.cron = params[lastWriter].schedule_cron
         /\ project.metadata.retention_id # 0
    ELSE Range(Anonymous(tagRules)) \subseteq
           Range(Anonymous(atStart.tagRules))
             \cup UNION {Range(run[p].desired) : p \in Procs}

\* Both invocations wrote a retention policy, each its own; the registry
\* stored the write of the first one last and holds its policy.
C14_Witness ==
  /\ kind = "retention" /\ BothFinished
  /\ \A p \in Procs : Writes(p) # <<>>
  /\ run[1].desired # run[2].desired
  /\ lastWriter = 1
  /\ Without(retPolicy, "id") = run[1].desired

\* C15: a tag run whose delta sets are both empty (every desired rule is a
\* current rule and every current rule is a desired rule) ends with
\* changed=false, in check mode and in apply mode, whatever the order of the
\* two lists and the number of duplicates in them.
C15_NoChangeOnEmptyDeltas ==
  \A p \in Procs :
    (/\ kind = "tag" /\ Current(p) /\ run[p].pc = "exited"
     /\ Unmatched(run[p].desired, run[p].before) = {}
     /\ Unmatched(run[p].before, run[p].desired) = {})
    => result[p].changed = FALSE

\* The canonical form of the resource the registry holds now.
CanonicalNow ==
  IF kind = "retention" THEN retPolicy
  ELSE IF kind = "schedule"
  THEN IF sched = Null THEN Null ELSE [schedule |-> sched.schedule]
  ELSE [i \in DOMAIN tagRules |-> With(Without(tagRules[i], "id"), "disabled", FALSE)]

\* What run p reports as the state after the run: the 'after' of its diff, or
\* the retention_policy of a created policy.
ReportsAfter(p, state) ==
  \/ result[p].diff # Null /\ result[p].diff.after = state
  \/ result[p].diff = Null /\ result[p].retention_policy # Null
       /\ result[p].retention_policy = state

Reports(p) == result[p].diff # Null \/ result[p].retention_policy # Null

\* C16: an apply-mode run that reports an after-state has issued a write, its
\* last request is a GET of the resource answered 200, issued after every
\* write of the run, and the after-state it reports is what the registry
\* holds, whether or not that is the payload it sent; a check-mode run
\* reports the desired state.
C16_AfterIsEmpirical ==
  \A p \in Procs :
    (Current(p) /\ run[p].pc = "exited" /\ Reports(p)) =>
      IF run[p].check_mode
      THEN ReportsAfter(p, run[p].desired)
      ELSE LET last == log[p][Len(log[p])]
           IN /\ Writes(p) # <<>>
              /\ last.method = "GET" /\ last.url # "/projects" /\ last.status = 200
              /\ ReportsAfter(p, CanonicalNow)

\* An apply-mode tag run that POSTed a rule and reports as after-state the
\* list the registry holds, which is not the desired list it asked for.
C16_Witness ==
  \E p \in Procs :
    /\ kind = "tag" /\ Current(p) /\ run[p].pc = "exited" /\ ~run[p].check_mode
    /\ result[p].diff # Null
    /\ result[p].diff.after # run[p].desired
    /\ result[p].diff.after = CanonicalNow
    /\ Issued(p, "POST")

\* The messages of a failure classified as UnknownStatus.
UnknownStatusMessages == {"Unknown HTTP status code", "UnknownStatus"}

\* C17: for the retention POST and PUT and the schedule PUT, a write answered
\* 2xx never fails the run, and a write fails the run as UnknownStatus only
\* when its status is non-2xx and none of 401, 403 and 500.
C17_WriteClassification ==
  \A p \in Procs :
    (Current(p) /\ kind \in {"retention", "schedule"}) =>
      \A i \in DOMAIN log[p] :
        LET req == log[p][i]
            failedOnIt == i = Len(log[p]) /\ run[p].pc = "failed"
        IN req.method \in {"POST", "PUT"} =>
             /\ Is2xx(req.status) => ~failedOnIt
             /\ (failedOnIt /\ result[p].msg \in UnknownStatusMessages) =>
                  (~Is2xx(req.status) /\ req.status \notin {401, 403, 500})

\* A check-mode run and then an apply-mode run of the same input have both
\* reached exit_json, the registry having stored every write.
CheckThenApply ==
  /\ run[1].pc = "exited" /\ run[1].check_mode
  /\ run[2].pc = "exited" /\ ~run[2].check_mode
  /\ params[1] = params[2]
  /\ faithful

\* C18: for the same parameters and the same registry state (the check-mode
\* run leaves the registry as it found it), on a registry that stores every
\* write, the check-mode run and the apply-mode run report the same changed
\* flag, in each of the three modules.
C18_CheckPredictsApply ==
  CheckThenApply => result[1].changed = result[2].changed

\* C19: in a tag run every POST is issued before the first DELETE; a run that
\* failed on a POST has issued no DELETE, and every rule the registry held
\* when the run started is still there, with its identifier.
C19_CreatesPrecedeDeletes ==
  \A p \in Procs :
    (kind = "tag" /\ Current(p)) =>
      /\ \A i, j \in DOMAIN log[p] :
           (log[p][i].method = "DELETE" /\ log[p][j].method = "POST") => j < i
      /\ (/\ run[p].pc = "failed"
          /\ log[p][Len(log[p])].method = "POST") =>
           /\ ~Issued(p, "DELETE")
           /\ \A k \in DOMAIN atStart.tagRules :
                atStart.tagRules[k] \in Range(tagRules)

\* A run that had a rule to delete failed on its second POST: the rule it
\* was to delete is still there.
C19_Witness ==
  \E p \in Procs :
    /\ kind = "tag" /\ Current(p) /\ run[p].pc = "failed"
    /\ Len(Writes(p)) = 2
    /\ Writes(p)[1].method = "POST" /\ Is2xx(Writes(p)[1].status)
    /\ Writes(p)[2].method = "POST" /\ ~Is2xx(Writes(p)[2].status)
    /\ run[p].to_delete_ids # <<>>
    /\ atStart.tagRules # <<>>

\* The canonical form of a rule the registry holds.
CanonicalRule(rule) == With(Without(rule, "id"), "disabled", FALSE)

\* C20: at every point of a tag run, aborted or not: a rule the registry held
\* at the start whose canonical form is in the desired list has not been the
\* target of a DELETE and is still held under its identifier, and no POST of
\* the run carries a rule that equals the canonical form of a rule held at
\* the start.
C20_MatchingRulesUntouched ==
  \A p \in Procs :
    (kind = "tag" /\ Current(p) /\ run[p].pc # "tag_lookup") =>
      /\ \A k \in DOMAIN atStart.tagRules :
           CanonicalRule(atStart.tagRules[k]) \in Range(run[p].desired) =>
             /\ \A i \in DOMAIN log[p] :
                  ~(log[p][i].method = "DELETE" /\ log[p][i].id = atStart.tagRules[k].id)
             /\ atStart.tagRules[k] \in Range(tagRules)
      /\ \A i \in DOMAIN log[p] :
           log[p][i].method = "POST" =>
             \A k \in DOMAIN atStart.tagRules :
               log[p][i].json # CanonicalRule(atStart.tagRules[k])

\* Of two current rules one is desired and one is not; the run deleted the
\* other one and then failed or ended: the desired one is still there.
C20_Witness ==
  \E p \in Procs :
    /\ kind = "tag" /\ Current(p) /\ run[p].pc \in Final
    /\ Len(atStart.tagRules) = 2
    /\ CanonicalRule(atStart.tagRules[1]) \in Range(run[p].desired)
    /\ CanonicalRule(atStart.tagRules[2]) \notin Range(run[p].desired)
    /\ Issued(p, "DELETE")
    /\ tagRules = <<atStart.tagRules[1]>>

============================================================================
